---- MODULE Spec2Model ----
(***************************************************************************)
(* Planly desktop client: session and authentication orchestration.       *)
(*                                                                         *)
(*   AuthStore   (desktop-app/src/services/auth.ts)  the token store       *)
(*   ApiClient   (services/api-client.ts)            axios client with the *)
(*               request interceptor (bearer token) and the response       *)
(*               interceptor (refresh and replay on 401)                   *)
(*   main.ts     window/tray/IPC handlers of the main process              *)
(*                                                                         *)
(* The main process is a single-threaded event loop.  One action of the    *)
(* model is one macrotask of that loop together with the microtasks        *)
(* (promise continuations) it triggers: code between two awaits of real    *)
(* I/O or timers runs atomically.  The remote service and the passage of   *)
(* time (token expiry) are the environment.                                *)
(***************************************************************************)
EXTENDS Integers, Sequences, FiniteSets, TLC

\* ------------------------------------------------------------------ bounds
\* Total number of HTTP requests (first sends, not replays) one behaviour
\* of the gateway specification may create.
MaxReq == 5
\* Number of calls the callers make on the gateway in the gateway specification.
MaxCalls == 2
\* Number of sessions (token pairs) the remote service issues.
MaxTok == 3
\* Number of HTTP requests one behaviour of the whole-application
\* specification creates.
MaxAppReq == 2
\* Number of chat:screenshot handlers that hid the chat and are in flight.
MaxShots == 1

\* Number of OAuth attempts (startBrowserOAuth calls) of one run.
MaxAttempts == 2
\* Number of /callback requests one attempt's listener handles.
MaxSignals == 2
\* The tokens a /callback request may carry are 1..MaxOAuthTok.
MaxOAuthTok == 2

\* A token is a positive number, the number of the session it belongs to;
\* NoToken stands for an absent key of the store (null).
NoToken == 0

\* Number of requests on other paths than /callback the listeners answer.
MaxNotFound == 1

\* How far around each edge of the clamps the saved bounds are drawn.
Slack == 1
\* A coordinate or a dimension far beyond every display.
FarOff == 5000

\* An OAuth attempt is a positive number, in the order of the calls of
\* startBrowserOAuth; NoAttempt stands for null in oauthServer / oauthTimeout.
NoAttempt == 0

VARIABLES
  store,            \* electron-store 'planly-auth': access_token, refresh_token
  reqs,             \* every request config created on the axios client, in order
  isAuthenticated,  \* main.ts: let isAuthenticated
  isQuitting,       \* main.ts: let isQuitting
  running,          \* the process has not exited (app.quit() not yet called)
  mainVisible,      \* mainWindow.isVisible()
  chatCreated,      \* chatWindow is not null
  chatVisible,      \* chatWindow.isVisible()
  view,             \* the view last sent to the main window on 'navigate'
  startup,          \* where startup() stands
  sleepers,         \* onAuthSuccess() invocations in their 1.5 s delay
  shots,            \* chat:screenshot handlers in flight with wasVisible = true
  keepSettled,      \* bookkeeping: settled request configs are kept on record
  oauthServer,      \* main.ts: let oauthServer (the attempt whose server it is)
  oauthTimeout,     \* main.ts: let oauthTimeout (the attempt whose timer it is)
  attempts,         \* number of startBrowserOAuth calls so far
  listening,        \* attempts whose http.Server listens on its loopback port
  timers,           \* attempts whose 90 s timer is armed
  conns,            \* attempts whose server holds an accepted connection
  signalled,        \* per attempt, the outcomes its callbacks have signalled
  chatBounds,       \* chatWindow.getBounds(), NoBounds without a chat window
  savedBounds,      \* electron-store 'window-bounds': chatBounds
  workArea,         \* screen.getPrimaryDisplay().workArea
  secondProcess,    \* a process launched while this one holds the lock
  notFound,         \* number of 404 responses the OAuth listeners have sent
  validAT,          \* remote service: access tokens it accepts
  validRT,          \* remote service: refresh tokens it accepts
  nextTok,          \* remote service: number of the next session it issues
  oneTime           \* remote service: a refresh token is accepted only once

\* The variables of the main process besides the store and the requests,
\* and those of the remote service.
uiVars == <<isAuthenticated, isQuitting, running, mainVisible, chatCreated,
            chatVisible, view, startup, sleepers, shots, keepSettled,
            oauthServer, oauthTimeout, attempts, listening, timers, conns,
            signalled, chatBounds, savedBounds, workArea, secondProcess,
            notFound>>

serverVars == <<validAT, validRT, nextTok, oneTime>>

vars == <<store, reqs, uiVars, serverVars>>

\* ------------------------------------------------------------- chat bounds

CHAT_MIN_WIDTH == 360
CHAT_MAX_WIDTH == 960
CHAT_MIN_HEIGHT == 72
CHAT_MAX_HEIGHT == 1200
CHAT_DEFAULT_WIDTH == 480
CHAT_DEFAULT_HEIGHT == 72
CHAT_SCREEN_MARGIN == 32
minVisible == 100

\* A WindowBounds record; NoBounds stands for an absent 'chatBounds' key of
\* the bounds store, and for the bounds of a window that does not exist.
Bounds(x, y, width, height) ==
  [present |-> TRUE, x |-> x, y |-> y, width |-> width, height |-> height]

NoBounds == [present |-> FALSE, x |-> 0, y |-> 0, width |-> 0, height |-> 0]

\* Math.max, Math.min
Max(a, b) == IF a >= b THEN a ELSE b

Min(a, b) == IF a <= b THEN a ELSE b

\* Math.round(k / 2) for an integer k: a half rounds towards +Infinity.
RoundHalf(k) == (k + 1) \div 2

\* getValidatedChatBounds(): the clamped dimensions w and h, and the
\* position x and y after the four visibility tests, of a saved record.
clampedW_NoMinimum(saved, area) ==
  Min(saved.width, Min(CHAT_MAX_WIDTH, area.width))

clampedW(saved, area) ==
  Max(CHAT_MIN_WIDTH, Min(saved.width, Min(CHAT_MAX_WIDTH, area.width)))

clampedH(saved, area) ==
  Max(CHAT_MIN_HEIGHT, Min(saved.height, Min(CHAT_MAX_HEIGHT, area.height)))

visibleX_NoLeftEdge(saved, area) ==
  LET w  == clampedW(saved, area)
  IN IF saved.x > area.x + area.width - minVisible
       THEN area.x + area.width - w ELSE saved.x

visibleX(saved, area) ==
  LET w  == clampedW(saved, area)
      x1 == IF saved.x + w < area.x + minVisible THEN area.x ELSE saved.x
  IN IF x1 > area.x + area.width - minVisible
       THEN area.x + area.width - w ELSE x1

visibleY(saved, area) ==
  LET h  == clampedH(saved, area)
      y1 == IF saved.y < area.y THEN area.y ELSE saved.y
  IN IF y1 > area.y + area.height - minVisible
       THEN area.y + area.height - h ELSE y1

\* The default of getValidatedChatBounds(): centered horizontally, anchored
\* near the bottom.
defaultChatBounds(area) ==
  Bounds(RoundHalf(area.width - CHAT_DEFAULT_WIDTH) + area.x,
         area.y + area.height - CHAT_DEFAULT_HEIGHT - CHAT_SCREEN_MARGIN,
         CHAT_DEFAULT_WIDTH, CHAT_DEFAULT_HEIGHT)

\* getValidatedChatBounds(), of the saved record and the work area of the
\* primary display; Math.round leaves the integers of the model as they are.
getValidatedChatBounds(saved, area) ==
  IF saved.present
    THEN Bounds(visibleX(saved, area), visibleY(saved, area),
                clampedW(saved, area), clampedH(saved, area))
    ELSE defaultChatBounds(area)

\* ---------------------------------------------------------------- AuthStore

getAccessToken(s) == s.access_token

getRefreshToken(s) == s.refresh_token

setTokens_AccessOnly(s, accessToken, refreshToken) ==
  [s EXCEPT !.access_token = accessToken]

setTokens(s, accessToken, refreshToken) ==
  [s EXCEPT !.access_token = accessToken, !.refresh_token = refreshToken]

clear(s) == [s EXCEPT !.access_token = NoToken, !.refresh_token = NoToken]

AuthStore_isAuthenticated(s) == getAccessToken(s) # NoToken

\* ---------------------------------------------------------------- ApiClient

\* The request interceptor: the bearer header is overwritten only when the
\* store holds an access token; a replayed config keeps its old header
\* otherwise.
requestInterceptor(s, q) ==
  [q EXCEPT !.bearer = IF getAccessToken(s) # NoToken THEN getAccessToken(s) ELSE @]

\* A new request config sent through this.client (post/get/delete).
\*   kind     which call created it
\*   st       "sent" (on its way to the service), "replied" (the response is
\*            on its way back), "waitRefresh" (the response interceptor
\*            awaits refreshToken()), "done" (settled towards its caller)
\*   retried  original._retried
\*   sends    how often the config was transmitted
\*   bearer   the Authorization header of the last transmission
\*   body     the refresh_token of the body (POST /auth/refresh)
\*   resp     the last response: "ok", "401", "err" (no response or another status)
\*   data     the session number of an "ok" response that carries tokens
\*   parent   the request whose response interceptor awaits this
\*            refreshToken() call; 0 for a call by anybody else
\*   result   what the caller got: "ok", "raw401" (the AxiosError of a 401
\*            response), "rawErr" (any other AxiosError)
\*   refreshed, newAt   the outcome of the refreshToken() call the response
\*            interceptor of this request awaited, and the access token it stored
NewRequest(s, kind, body, parent) ==
  requestInterceptor(s,
    [kind |-> kind, st |-> "sent", retried |-> FALSE, sends |-> 1,
     bearer |-> NoToken, body |-> body, resp |-> "none", data |-> NoToken,
     parent |-> parent, result |-> "none", refreshed |-> "none", newAt |-> NoToken])

\* Mutant of MarkRetried: the flag is never set.
MarkRetried_Forgets(q) == q

\* original._retried = true
MarkRetried(q) == [q EXCEPT !.retried = TRUE]

\* The guard of the refresh branch of the response interceptor.
ShouldRefresh(q) == q.resp = "401" /\ ~q.retried

\* Mutant of Replay: the config is sent again with the header it had.
Replay_StaleHeader(s, q) ==
  [q EXCEPT !.st = "sent", !.sends = @ + 1, !.resp = "none", !.data = NoToken]

\* return this.client.request(original): the same config goes through the
\* request interceptor and out again.
Replay(s, q) ==
  requestInterceptor(s, [q EXCEPT !.st = "sent", !.sends = @ + 1,
                                  !.resp = "none", !.data = NoToken])

\* The error a rejected request surfaces: the interceptor rejects with the
\* AxiosError it was given.
RejectWith(resp) == IF resp = "401" THEN "raw401" ELSE "rawErr"

\* Mutant of refreshToken_catch: the tokens are kept on failure.
refreshToken_catch_KeepsTokens(s) == s

\* refreshToken(), after the POST resolved: the try branch and the catch branch.
refreshToken_try(s, data) == setTokens(s, data, data)

refreshToken_catch(s) == clear(s)

\* A settled request config is garbage to the program.  Where the record of
\* what happened to it is not wanted, it is left as this blank entry.
Settled ==
  [kind |-> "none", st |-> "done", retried |-> FALSE, sends |-> 0,
   bearer |-> NoToken, body |-> NoToken, resp |-> "none", data |-> NoToken,
   parent |-> 0, result |-> "none", refreshed |-> "none", newAt |-> NoToken]

\* A request settles with `res` towards whoever awaits it.  For a POST
\* /auth/refresh that is refreshToken(): it stores or clears the tokens and
\* returns to the response interceptor of the parent request, which replays
\* the parent (true) or rejects it with its own 401 error (false), and so on
\* up the chain of awaiting interceptors.  fin is the request (as settled)
\* that settled towards a caller outside the client; its kind is "none" if
\* none did.
RECURSIVE Settle(_, _, _, _, _)
Settle(rq, s, r, res, keep) ==
  LET q1  == [rq[r] EXCEPT !.st = "done", !.result = res]
      rq1 == [rq EXCEPT ![r] = IF keep THEN q1 ELSE Settled]
      p   == rq[r].parent
  IN IF rq[r].kind # "refresh"
       THEN [reqs |-> rq1, store |-> s, fin |-> q1]
       ELSE IF res = "ok"
         THEN LET s1 == refreshToken_try(s, rq[r].data)
              IN IF p = 0
                   THEN [reqs |-> rq1, store |-> s1, fin |-> q1]
                   ELSE [reqs |-> [rq1 EXCEPT ![p] = Replay(s1,
                                      [@ EXCEPT !.refreshed = "ok",
                                                !.newAt = rq[r].data])],
                         store |-> s1, fin |-> Settled]
         ELSE LET s1 == refreshToken_catch(s)
              IN IF p = 0
                   THEN [reqs |-> rq1, store |-> s1, fin |-> q1]
                   ELSE Settle([rq1 EXCEPT ![p].refreshed = "fail"], s1, p,
                               RejectWith(rq[p].resp), keep)

\* The response interceptor on the response of request r (lines 75-88),
\* with the synchronous start of refreshToken() (lines 142-149).
responseInterceptor(rq, s, r, keep) ==
  LET q == rq[r]
  IN IF q.resp = "ok" THEN Settle(rq, s, r, "ok", keep)
     ELSE IF ShouldRefresh(q)
       THEN IF getRefreshToken(s) = NoToken
              THEN Settle([rq EXCEPT ![r] = [MarkRetried(q) EXCEPT !.refreshed = "fail"]],
                          s, r, RejectWith(q.resp), keep)
              ELSE [reqs |-> Append([rq EXCEPT ![r] = [MarkRetried(q) EXCEPT !.st = "waitRefresh"]],
                                    NewRequest(s, "refresh", getRefreshToken(s), r)),
                    store |-> s, fin |-> Settled]
       ELSE Settle(rq, s, r, RejectWith(q.resp), keep)

\* ------------------------------------------------------------ main process

\* The state of the client process as one record, so that a handler is a
\* function from the state before it to the state after it.
World ==
  [store |-> store, reqs |-> reqs, isAuthenticated |-> isAuthenticated,
   isQuitting |-> isQuitting, running |-> running, mainVisible |-> mainVisible,
   chatCreated |-> chatCreated, chatVisible |-> chatVisible, view |-> view,
   startup |-> startup, sleepers |-> sleepers, shots |-> shots,
   keepSettled |-> keepSettled, oauthServer |-> oauthServer,
   oauthTimeout |-> oauthTimeout, attempts |-> attempts,
   listening |-> listening, timers |-> timers, conns |-> conns,
   signalled |-> signalled, chatBounds |-> chatBounds,
   savedBounds |-> savedBounds, workArea |-> workArea,
   secondProcess |-> secondProcess, notFound |-> notFound]

\* The step to state w, which may hold at most `limit` requests.
Apply(w, limit) ==
  /\ Len(w.reqs) <= limit
  /\ store' = w.store
  /\ reqs' = w.reqs
  /\ isAuthenticated' = w.isAuthenticated
  /\ isQuitting' = w.isQuitting
  /\ running' = w.running
  /\ mainVisible' = w.mainVisible
  /\ chatCreated' = w.chatCreated
  /\ chatVisible' = w.chatVisible
  /\ view' = w.view
  /\ startup' = w.startup
  /\ sleepers' = w.sleepers
  /\ shots' = w.shots
  /\ keepSettled' = w.keepSettled
  /\ oauthServer' = w.oauthServer
  /\ oauthTimeout' = w.oauthTimeout
  /\ attempts' = w.attempts
  /\ listening' = w.listening
  /\ timers' = w.timers
  /\ conns' = w.conns
  /\ signalled' = w.signalled
  /\ chatBounds' = w.chatBounds
  /\ savedBounds' = w.savedBounds
  /\ workArea' = w.workArea
  /\ secondProcess' = w.secondProcess
  /\ notFound' = w.notFound

\* this.client.post / get / delete: a new request of `kind` leaves.
send(w, kind) ==
  [w EXCEPT !.reqs = Append(@, NewRequest(w.store, kind, NoToken, 0))]

\* navigateTo(view): the main window exists from startup to exit.
navigateTo(w, v) == [w EXCEPT !.view = v]

\* mainWindow.show(); mainWindow.focus()
showMain(w) == [w EXCEPT !.mainVisible = TRUE]

\* if (chatWindow && !chatWindow.isDestroyed()) chatWindow.hide()
hideChat(w) == [w EXCEPT !.chatVisible = FALSE]

\* isQuitting = true; app.quit(): the windows close, the process exits and
\* what it held in memory is gone; the store file stays.
quitApp_KeepsRunning(w) == [w EXCEPT !.isQuitting = TRUE]

quitApp(w) ==
  [store |-> w.store, reqs |-> <<>>, isAuthenticated |-> FALSE,
   isQuitting |-> TRUE, running |-> FALSE, mainVisible |-> FALSE,
   chatCreated |-> FALSE, chatVisible |-> FALSE, view |-> "none",
   startup |-> "done", sleepers |-> 0, shots |-> 0, keepSettled |-> w.keepSettled,
   oauthServer |-> NoAttempt, oauthTimeout |-> NoAttempt, attempts |-> 0,
   listening |-> {}, timers |-> {}, conns |-> {},
   signalled |-> [a \in 1..MaxAttempts |-> <<>>], chatBounds |-> NoBounds,
   savedBounds |-> w.savedBounds, workArea |-> w.workArea,
   secondProcess |-> w.secondProcess, notFound |-> 0]

\* createChatWindow(): the window is created hidden, with the validated
\* bounds.
createChatWindow(w) ==
  [w EXCEPT !.chatCreated = TRUE,
            !.chatBounds = getValidatedChatBounds(w.savedBounds, w.workArea)]

\* saveChatBounds(), on 'moved' / 'resized' of the chat window.
saveChatBounds(w) ==
  IF ~w.chatCreated THEN w ELSE [w EXCEPT !.savedBounds = w.chatBounds]

\* toggleChatWindow(): global shortcut, SIGUSR1, tray 'Open Planly'.
toggleChatWindow_NoRestore(w) ==
  LET w1 == IF w.chatCreated THEN w ELSE createChatWindow(w)
  IN IF w1.chatVisible
       THEN hideChat(w1)
       ELSE IF ~w1.isAuthenticated
         THEN showMain(navigateTo(w1, "login"))
         ELSE [w1 EXCEPT !.mainVisible = FALSE, !.chatVisible = TRUE]

toggleChatWindow(w) ==
  LET w1 == IF w.chatCreated THEN w ELSE createChatWindow(w)
  IN IF w1.chatVisible
       THEN hideChat(w1)
       ELSE IF ~w1.isAuthenticated
         THEN showMain(navigateTo(w1, "login"))
         ELSE [w1 EXCEPT !.mainVisible = FALSE,
                         !.chatBounds = getValidatedChatBounds(w1.savedBounds,
                                                               w1.workArea),
                         !.chatVisible = TRUE]

\* ApiClient.logout(): the POST leaves; the store is cleared when it settles.
logout_start(w, kind) == send(w, kind)

logout_finally_Skips(w) == w

logout_finally(w) == [w EXCEPT !.store = clear(@)]

\* The tray item 'Logout' / 'Login'.
trayLogoutClick(w) ==
  IF w.isAuthenticated
    THEN showMain(navigateTo(hideChat(
           [logout_start(w, "logoutT") EXCEPT !.isAuthenticated = FALSE]), "login"))
    ELSE showMain(navigateTo(w, "login"))

\* ipcMain.handle('auth:logout')
auth_logout(w) == [w EXCEPT !.store = clear(@), !.isAuthenticated = FALSE]

\* ipcMain.handle('settings:logout'), after await apiClient.logout()
settings_logout_resume(w) ==
  showMain(navigateTo(hideChat([w EXCEPT !.isAuthenticated = FALSE]), "login"))

\* ApiClient.deleteUser() after the DELETE resolved, and the catch of
\* ipcMain.handle('settings:delete-account') when it rejected.
deleteUser_then(w) == [w EXCEPT !.store = clear(@)]

delete_account_catch_OnlyLogs(w) == w

delete_account_catch(w) == [w EXCEPT !.store = clear(@)]

\* ipcMain.handle('settings:delete-account'), after the try/catch
delete_account_resume(w) ==
  showMain(navigateTo(hideChat([w EXCEPT !.isAuthenticated = FALSE]), "login"))

\* ApiClient.login() / register() after the POST resolved.
login_then(w, data) == [w EXCEPT !.store = setTokens(@, data, data)]

\* onAuthSuccess() up to await apiClient.getMe(), from there to the 1.5 s
\* delay, and after the delay.
onAuthSuccess(w) ==
  send(navigateTo(showMain([w EXCEPT !.isAuthenticated = TRUE]), "splash"), "me")

onAuthSuccess_afterGetMe(w) == [w EXCEPT !.sleepers = @ + 1]

onAuthSuccess_afterDelay(w) == navigateTo([w EXCEPT !.sleepers = @ - 1], "home")

\* ipcMain.handle('chat:screenshot'): up to the first await, and the finally.
chat_screenshot(w) ==
  IF w.chatVisible THEN [hideChat(w) EXCEPT !.shots = @ + 1] ELSE w

chat_screenshot_finally(w) == [w EXCEPT !.chatVisible = TRUE, !.shots = @ - 1]

\* startup() after the health check: quit when unhealthy; with a stored
\* access token refreshToken() (false at once without a refresh token);
\* otherwise on to the login view.
startup_afterHealth_IgnoresHealth(w, healthy) ==
  IF AuthStore_isAuthenticated(w.store) /\ getRefreshToken(w.store) # NoToken
    THEN [w EXCEPT !.startup = "refresh",
                   !.reqs = Append(@, NewRequest(w.store, "refresh",
                                                 getRefreshToken(w.store), 0))]
    ELSE [w EXCEPT !.startup = "loginWait"]

startup_afterHealth(w, healthy) ==
  IF ~healthy THEN [w EXCEPT !.startup = "quitWait"]
  ELSE IF AuthStore_isAuthenticated(w.store)
    THEN IF getRefreshToken(w.store) = NoToken
           THEN [w EXCEPT !.startup = "loginWait"]
           ELSE [w EXCEPT !.startup = "refresh",
                          !.reqs = Append(@, NewRequest(w.store, "refresh",
                                                        getRefreshToken(w.store), 0))]
    ELSE [w EXCEPT !.startup = "loginWait"]

\* startup() after await apiClient.refreshToken()
startup_afterRefresh(w, refreshed) ==
  IF refreshed
    THEN send([w EXCEPT !.isAuthenticated = TRUE, !.startup = "me"], "meStartup")
    ELSE [w EXCEPT !.startup = "loginWait"]

\* startup() after await apiClient.getMe()
startup_afterGetMe(w) == [w EXCEPT !.startup = "homeWait"]

\* startup() after its last delay on each of the three paths
startup_afterDelay(w) ==
  IF w.startup = "quitWait" THEN quitApp(w)
  ELSE IF w.startup = "homeWait" THEN navigateTo([w EXCEPT !.startup = "done"], "home")
  ELSE navigateTo([w EXCEPT !.startup = "done"], "login")

\* cleanupOAuth(): clears the timer oauthTimeout refers to and closes the
\* server oauthServer refers to.  close() stops the listening; connections
\* the server has accepted stay open.
cleanupOAuth_OneAtATime(w) ==
  IF w.oauthTimeout # NoAttempt
  THEN [w EXCEPT !.timers = @ \ {w.oauthTimeout}, !.oauthTimeout = NoAttempt]
  ELSE [w EXCEPT !.listening = @ \ {w.oauthServer}, !.oauthServer = NoAttempt]

cleanupOAuth_DropsReferences(w) ==
  [w EXCEPT !.oauthTimeout = NoAttempt, !.oauthServer = NoAttempt]

cleanupOAuth(w) ==
  [w EXCEPT !.timers = @ \ {w.oauthTimeout}, !.oauthTimeout = NoAttempt,
            !.listening = @ \ {w.oauthServer}, !.oauthServer = NoAttempt]

\* The code run for attempt a signals an outcome: onAuthSuccess() for
\* "success", mainWindow.webContents.send('oauth:error', ..) for "error"
\* and, from the timer, for "timeout".
signal(w, a, outcome) == [w EXCEPT !.signalled[a] = Append(@, outcome)]

\* oauthServer.on('error'): the server of attempt a could not listen.
oauthServer_onError(w, a) == signal(cleanupOAuth(w), a, "error")

\* The callback of oauthServer.listen(): the timer of attempt a is armed.
oauthServer_onListening_NoTimer(w, a) == [w EXCEPT !.listening = @ \cup {a}]

oauthServer_onListening(w, a) ==
  [w EXCEPT !.listening = @ \cup {a}, !.oauthTimeout = a, !.timers = @ \cup {a}]

\* startBrowserOAuth(): 'listening' or 'error' is emitted on the next tick,
\* before any other event is handled.
startBrowserOAuth(w, listens) ==
  LET a  == w.attempts + 1
      w1 == [cleanupOAuth(w) EXCEPT !.attempts = a, !.oauthServer = a]
  IN IF listens THEN oauthServer_onListening(w1, a) ELSE oauthServer_onError(w1, a)

\* The request handler of the server of attempt a, for a /callback request
\* with query q: the error branch, the missing-token branch, the success
\* branch up to the first await of onAuthSuccess().
oauthCallback_success_SwapsTokens(w, a, q) ==
  onAuthSuccess([signal(cleanupOAuth(w), a, "success")
                   EXCEPT !.store = setTokens(@, q.rt, q.at)])

oauthCallback_success(w, a, q) ==
  onAuthSuccess([signal(cleanupOAuth(w), a, "success")
                   EXCEPT !.store = setTokens(@, q.at, q.rt)])

oauthCallback_TokensFirst(w, a, q) ==
  IF q.at # NoToken /\ q.rt # NoToken THEN oauthCallback_success(w, a, q)
  ELSE signal(cleanupOAuth(w), a, "error")

oauthCallback(w, a, q) ==
  IF q.error THEN signal(cleanupOAuth(w), a, "error")
  ELSE IF q.at = NoToken \/ q.rt = NoToken THEN signal(cleanupOAuth(w), a, "error")
  ELSE oauthCallback_success(w, a, q)

\* The request handler of the server of attempt a: any path but /callback
\* is answered 404.
oauthServer_onRequest_AnyPath(w, a, pathname, q) == oauthCallback(w, a, q)

oauthServer_onRequest(w, a, pathname, q) ==
  IF pathname # "/callback" THEN [w EXCEPT !.notFound = @ + 1]
  ELSE oauthCallback(w, a, q)

\* The 90 s timer of attempt a fires.
oauthTimeout_fires_NoTeardown(w, a) ==
  signal([w EXCEPT !.timers = @ \ {a}], a, "timeout")

oauthTimeout_fires_ClearsStore(w, a) ==
  signal(cleanupOAuth([w EXCEPT !.timers = @ \ {a}, !.store = clear(@)]),
         a, "timeout")

oauthTimeout_fires(w, a) ==
  signal(cleanupOAuth([w EXCEPT !.timers = @ \ {a}]), a, "timeout")

\* What runs when request q settles towards its caller outside the client.
Continue(w, q) ==
  CASE q.kind = "login" ->
         IF q.result = "ok" THEN onAuthSuccess(login_then(w, q.data)) ELSE w
    [] q.kind = "me" -> onAuthSuccess_afterGetMe(w)
    [] q.kind = "logoutS" -> settings_logout_resume(logout_finally(w))
    [] q.kind = "logoutT" -> logout_finally(w)
    [] q.kind = "delete" ->
         delete_account_resume(IF q.result = "ok" THEN deleteUser_then(w)
                               ELSE delete_account_catch(w))
    [] q.kind = "refresh" -> startup_afterRefresh(w, q.result = "ok")
    [] q.kind = "meStartup" -> startup_afterGetMe(w)
    [] OTHER -> w

\* ------------------------------------------------------------ remote service

\* The service issues session k: both tokens of it become valid; with
\* one-time refresh tokens the one presented is used up.
IssueSession(used) ==
  /\ nextTok <= MaxTok
  /\ validAT' = validAT \cup {nextTok}
  /\ validRT' = (IF oneTime THEN validRT \ {used} ELSE validRT) \cup {nextTok}
  /\ nextTok' = nextTok + 1

\* What the service (or the network) may answer to request q: a network
\* failure; for POST /auth/refresh a new session or 401 by the refresh token
\* of the body; for POST /auth/login or /auth/register a new session or 401
\* (the credentials are the caller's); for any other call 200 or 401 by the
\* bearer token.
Answers(q) ==
  {"err"} \cup
  (CASE q.kind = "refresh" -> IF q.body \in validRT THEN {"session"} ELSE {"401"}
     [] q.kind = "login" -> {"session", "401"}
     [] OTHER -> IF q.bearer \in validAT THEN {"ok"} ELSE {"401"})

ServerHandle(r) ==
  /\ running
  /\ reqs[r].st = "sent"
  /\ \E a \in Answers(reqs[r]) :
       IF a = "session"
         THEN /\ IssueSession(reqs[r].body)
              /\ reqs' = [reqs EXCEPT ![r].st = "replied", ![r].resp = "ok",
                                      ![r].data = nextTok]
         ELSE /\ reqs' = [reqs EXCEPT ![r].st = "replied", ![r].resp = a]
              /\ UNCHANGED <<validAT, validRT, nextTok>>
  /\ UNCHANGED <<store, uiVars, oneTime>>

\* Time passes: the access tokens issued so far expire.
ExpireAT ==
  /\ running
  /\ validAT # {}
  /\ validAT' = {}
  /\ UNCHANGED <<store, reqs, uiVars, validRT, nextTok, oneTime>>

\* Time passes: the refresh tokens issued so far expire (or are revoked).
ExpireRT ==
  /\ running
  /\ validRT # {}
  /\ validRT' = {}
  /\ UNCHANGED <<store, reqs, uiVars, validAT, nextTok, oneTime>>

\* ------------------------------------------------------------ events

\* ipcMain.handle('agent:process' / 'agent:confirm'): processConversation /
\* confirmActions on the gateway.
Call(limit) ==
  /\ running
  /\ Cardinality({r \in DOMAIN reqs : reqs[r].kind = "api"}) < MaxCalls
  /\ Apply(send(World, "api"), limit)
  /\ UNCHANGED serverVars

\* The client receives the response of request r: the response interceptor,
\* and the continuation of the caller when the request settles.
Receive(r, limit) ==
  /\ running
  /\ reqs[r].st = "replied"
  /\ LET out == responseInterceptor(reqs, store, r, keepSettled)
         w   == [World EXCEPT !.reqs = out.reqs, !.store = out.store]
     IN Apply(Continue(w, out.fin), limit)
  /\ UNCHANGED serverVars

\* ipcMain.handle('auth:login' / 'auth:register')
AuthLogin ==
  /\ running
  /\ Apply(send(World, "login"), MaxAppReq)
  /\ UNCHANGED serverVars

\* ipcMain.handle('auth:logout')
AuthLogout ==
  /\ running
  /\ Apply(auth_logout(World), MaxAppReq)
  /\ UNCHANGED serverVars

\* ipcMain.handle('settings:logout'), up to await apiClient.logout()
SettingsLogout ==
  /\ running
  /\ Apply(logout_start(World, "logoutS"), MaxAppReq)
  /\ UNCHANGED serverVars

\* ipcMain.handle('settings:delete-account'), up to await apiClient.deleteUser()
SettingsDeleteAccount ==
  /\ running
  /\ Apply(send(World, "delete"), MaxAppReq)
  /\ UNCHANGED serverVars

\* The tray item 'Logout' / 'Login' is clicked.
TrayLogout ==
  /\ running
  /\ Apply(trayLogoutClick(World), MaxAppReq)
  /\ UNCHANGED serverVars

\* The activation toggle: global shortcut, SIGUSR1 or tray 'Open Planly'.
Toggle ==
  /\ running
  /\ Apply(toggleChatWindow(World), MaxAppReq)
  /\ UNCHANGED serverVars

\* The user has moved or resized the visible chat window: 'moved' /
\* 'resized' run saveChatBounds().  The window ends fully inside the work
\* area at its top or Slack above its bottom edge, or hanging over its
\* right edge with less than minVisible inside.
MovedTo(area) ==
  {Bounds(area.x, area.y, CHAT_DEFAULT_WIDTH, CHAT_DEFAULT_HEIGHT),
   Bounds(area.x, area.y + area.height - CHAT_DEFAULT_HEIGHT - Slack,
          CHAT_DEFAULT_WIDTH, CHAT_DEFAULT_HEIGHT),
   Bounds(area.x + area.width - minVisible + Slack, area.y,
          CHAT_DEFAULT_WIDTH, CHAT_DEFAULT_HEIGHT)}

ChatMoved ==
  /\ running
  /\ chatVisible
  /\ \E b \in MovedTo(workArea) :
       /\ b # chatBounds
       /\ Apply(saveChatBounds([World EXCEPT !.chatBounds = b]), MaxAppReq)
  /\ UNCHANGED serverVars

\* ipcMain.on('chat:close'), or Escape in the chat window.
ChatClose ==
  /\ running
  /\ chatVisible
  /\ Apply(hideChat(World), MaxAppReq)
  /\ UNCHANGED serverVars

\* Escape in the main window, or its close button.
MainHide ==
  /\ running
  /\ mainVisible
  /\ Apply([World EXCEPT !.mainVisible = FALSE], MaxAppReq)
  /\ UNCHANGED serverVars

\* app.on('second-instance')
SecondInstance ==
  /\ running
  /\ ~mainVisible
  /\ Apply(showMain(World), MaxAppReq)
  /\ UNCHANGED serverVars

\* A second process is launched while this one runs: its
\* requestSingleInstanceLock() fails and it calls app.quit(); this process
\* handles 'second-instance'.
SecondLaunch ==
  /\ running
  /\ secondProcess \in {"none", "exited"}
  /\ Apply([showMain(World) EXCEPT !.secondProcess = "quit"], MaxAppReq)
  /\ UNCHANGED serverVars

\* The second process becomes ready before its quit completes: the module
\* has registered app.whenReady().then(startup) whatever gotLock was, and
\* startup() runs to its first await (main window, tray, shortcut, the
\* health check started).  app.quit() before 'ready' only takes effect
\* once the main message loop of the process exists.
SecondReady ==
  /\ running
  /\ secondProcess = "quit"
  /\ Apply([World EXCEPT !.secondProcess = "startup"], MaxAppReq)
  /\ UNCHANGED serverVars

\* The quit of the second process completes.
SecondExit ==
  /\ running
  /\ secondProcess \in {"quit", "startup"}
  /\ Apply([World EXCEPT !.secondProcess = "exited"], MaxAppReq)
  /\ UNCHANGED serverVars

\* ipcMain.handle('chat:screenshot') is invoked while the chat is visible.
Screenshot ==
  /\ running
  /\ chatVisible
  /\ shots < MaxShots
  /\ Apply(chat_screenshot(World), MaxAppReq)
  /\ UNCHANGED serverVars

\* The capture of a screenshot handler ends (or throws): its finally runs.
ScreenshotDone ==
  /\ running
  /\ shots > 0
  /\ Apply(chat_screenshot_finally(World), MaxAppReq)
  /\ UNCHANGED serverVars

\* The 1.5 s delay of an onAuthSuccess() invocation elapses.
AuthSuccessDelay ==
  /\ running
  /\ sleepers > 0
  /\ Apply(onAuthSuccess_afterDelay(World), MaxAppReq)
  /\ UNCHANGED serverVars

\* The health check of startup() answers.
StartupHealth ==
  /\ running
  /\ startup = "health"
  /\ \E healthy \in BOOLEAN : Apply(startup_afterHealth(World, healthy), MaxAppReq)
  /\ UNCHANGED serverVars

\* The last delay of startup() elapses.
StartupDelay ==
  /\ running
  /\ startup \in {"quitWait", "homeWait", "loginWait"}
  /\ Apply(startup_afterDelay(World), MaxAppReq)
  /\ UNCHANGED serverVars

\* ipcMain.handle('auth:google-oauth')
StartOAuth ==
  /\ running
  /\ attempts < MaxAttempts
  /\ \E listens \in BOOLEAN : Apply(startBrowserOAuth(World, listens), MaxAppReq)
  /\ UNCHANGED serverVars

\* The browser (or any local process) connects to the loopback port of
\* attempt a while its server listens.
OAuthConnect(a) ==
  /\ running
  /\ a \in listening
  /\ a \notin conns
  /\ Apply([World EXCEPT !.conns = @ \cup {a}], MaxAppReq)
  /\ UNCHANGED serverVars

\* The queries of a /callback request: an error parameter or none, and the
\* two token parameters, each absent (NoToken) or present.
CallbackQueries ==
  [error : BOOLEAN, at : 0..MaxOAuthTok, rt : 0..MaxOAuthTok]

\* A /callback request with query q arrives on a connection the server of
\* attempt a has accepted; afterwards the connection is kept alive or closed.
OAuthDeliver(a, q) ==
  /\ running
  /\ a \in conns
  /\ Len(signalled[a]) < MaxSignals
  /\ \E keepAlive \in BOOLEAN :
       Apply([oauthCallback(World, a, q)
                EXCEPT !.conns = IF keepAlive THEN @ ELSE @ \ {a}], MaxAppReq)
  /\ UNCHANGED serverVars

OAuthCallback(a) == \E q \in CallbackQueries : OAuthDeliver(a, q)

\* The paths other than /callback a request to the listener may name.
OtherPaths == {"/", "/callback/", "/favicon.ico"}

\* An accepted connection of the listener of attempt a delivers a request
\* on another path, with any query.
OAuthOtherPath(a) ==
  /\ running
  /\ a \in conns
  /\ notFound < MaxNotFound
  /\ \E pathname \in OtherPaths : \E q \in CallbackQueries :
     \E keepAlive \in BOOLEAN :
       Apply([oauthServer_onRequest(World, a, pathname, q)
                EXCEPT !.conns = IF keepAlive THEN @ ELSE @ \ {a}], MaxAppReq)
  /\ UNCHANGED serverVars

\* The 90 s timer of attempt a elapses.
OAuthTimeout(a) ==
  /\ running
  /\ a \in timers
  /\ Apply(oauthTimeout_fires(World, a), MaxAppReq)
  /\ UNCHANGED serverVars

\* ipcMain.on('settings:quit'), or the tray item 'Quit'.
Quit ==
  /\ running
  /\ Apply(quitApp(World), MaxAppReq)
  /\ UNCHANGED serverVars

\* ------------------------------------------------------------ specification

\* No OAuth attempt has been started.
OAuthIdle ==
  /\ notFound = 0
  /\ oauthServer = NoAttempt
  /\ oauthTimeout = NoAttempt
  /\ attempts = 0
  /\ listening = {}
  /\ timers = {}
  /\ conns = {}
  /\ signalled = [a \in 1..MaxAttempts |-> <<>>]

\* No other process has been launched while this one runs.
SoleProcess == secondProcess = "none"

\* No bounds have been saved, there is no chat window, and the primary
\* display is a full-HD one without panels.
PrimaryWorkArea == [x |-> 0, y |-> 0, width |-> 1920, height |-> 1080]

BoundsIdle ==
  /\ chatBounds = NoBounds
  /\ savedBounds = NoBounds
  /\ workArea = PrimaryWorkArea

\* The process has been launched: startup() has created the main window
\* (showing the splash view), the tray and the shortcut and awaits the
\* health check.  The store is empty or holds the session of an earlier run,
\* which the service may or may not still honour.
Init ==
  /\ store \in {[access_token |-> NoToken, refresh_token |-> NoToken],
                [access_token |-> 1, refresh_token |-> 1]}
  /\ reqs = <<>>
  /\ isAuthenticated = FALSE
  /\ isQuitting = FALSE
  /\ running = TRUE
  /\ mainVisible = TRUE
  /\ chatCreated = FALSE
  /\ chatVisible = FALSE
  /\ view = "splash"
  /\ startup = "health"
  /\ sleepers = 0
  /\ shots = 0
  /\ keepSettled = FALSE
  /\ validAT \in SUBSET ({store.access_token} \ {NoToken})
  /\ validRT \in SUBSET ({store.refresh_token} \ {NoToken})
  /\ nextTok = 2
  /\ OAuthIdle
  /\ SoleProcess
  /\ BoundsIdle
  /\ oneTime \in BOOLEAN

Next ==
  \/ StartupHealth
  \/ StartupDelay
  \/ AuthLogin
  \/ AuthLogout
  \/ SettingsLogout
  \/ SettingsDeleteAccount
  \/ TrayLogout
  \/ Toggle
  \/ ChatClose
  \/ MainHide
  \/ SecondInstance
  \/ Screenshot
  \/ ScreenshotDone
  \/ AuthSuccessDelay
  \/ Quit
  \/ Call(MaxAppReq)
  \/ \E r \in DOMAIN reqs : ServerHandle(r)
  \/ \E r \in DOMAIN reqs : Receive(r, MaxAppReq)
  \/ ExpireAT
  \/ ExpireRT

Spec == Init /\ [][Next]_vars

\* The application some time after a launch that found a stored session the
\* service honoured: startup() has refreshed it, set isAuthenticated and
\* shown the home view.  The session in the store is called 1; sessions of
\* earlier runs, which the client no longer holds, are left out.
SessionInit ==
  /\ store = [access_token |-> 1, refresh_token |-> 1]
  /\ reqs = <<>>
  /\ isAuthenticated = TRUE
  /\ isQuitting = FALSE
  /\ running = TRUE
  /\ mainVisible = TRUE
  /\ chatCreated = FALSE
  /\ chatVisible = FALSE
  /\ view = "home"
  /\ startup = "done"
  /\ sleepers = 0
  /\ shots = 0
  /\ keepSettled = FALSE
  /\ validAT = {1}
  /\ validRT = {1}
  /\ nextTok = 2
  /\ OAuthIdle
  /\ SoleProcess
  /\ BoundsIdle
  /\ oneTime \in BOOLEAN

SessionNext ==
  \/ AuthLogin
  \/ AuthLogout
  \/ SettingsLogout
  \/ SettingsDeleteAccount
  \/ TrayLogout
  \/ Toggle
  \/ ChatClose
  \/ MainHide
  \/ SecondInstance
  \/ Screenshot
  \/ ScreenshotDone
  \/ AuthSuccessDelay
  \/ Quit
  \/ Call(MaxAppReq)
  \/ \E r \in DOMAIN reqs : ServerHandle(r)
  \/ \E r \in DOMAIN reqs : Receive(r, MaxAppReq)
  \/ ExpireAT
  \/ ExpireRT

SessionSpec == SessionInit /\ [][SessionNext]_vars

\* The application at the login view: startup() found no stored session.
\* Its sign-in and sign-out events are taken, with the windows left as they
\* are.  Of the tokens 1..MaxOAuthTok a callback may carry the service
\* honours session 1; the others are stale or forged.
OAuthInit ==
  /\ store = [access_token |-> NoToken, refresh_token |-> NoToken]
  /\ reqs = <<>>
  /\ isAuthenticated = FALSE
  /\ isQuitting = FALSE
  /\ running = TRUE
  /\ mainVisible = TRUE
  /\ chatCreated = FALSE
  /\ chatVisible = FALSE
  /\ view = "login"
  /\ startup = "done"
  /\ sleepers = 0
  /\ shots = 0
  /\ keepSettled = FALSE
  /\ validAT = {1}
  /\ validRT = {1}
  /\ nextTok = MaxOAuthTok + 1
  /\ oneTime \in BOOLEAN
  /\ OAuthIdle
  /\ SoleProcess
  /\ BoundsIdle

OAuthNext ==
  \/ StartOAuth
  \/ \E a \in 1..MaxAttempts : OAuthConnect(a)
  \/ \E a \in 1..MaxAttempts : OAuthCallback(a)
  \/ \E a \in 1..MaxAttempts : OAuthTimeout(a)
  \/ AuthLogin
  \/ AuthLogout
  \/ SettingsLogout
  \/ SettingsDeleteAccount
  \/ TrayLogout
  \/ AuthSuccessDelay
  \/ Quit
  \/ \E r \in DOMAIN reqs : ServerHandle(r)
  \/ \E r \in DOMAIN reqs : Receive(r, MaxAppReq)

OAuthSpec == OAuthInit /\ [][OAuthNext]_vars

\* The application at the login view with nobody signed in and no session
\* issued yet; every request may be sent, up to MaxReq in all, and every
\* settled request is kept on record.
LoginInit ==
  /\ store = [access_token |-> NoToken, refresh_token |-> NoToken]
  /\ reqs = <<>>
  /\ isAuthenticated = FALSE
  /\ isQuitting = FALSE
  /\ running = TRUE
  /\ mainVisible = TRUE
  /\ chatCreated = FALSE
  /\ chatVisible = FALSE
  /\ view = "login"
  /\ startup = "done"
  /\ sleepers = 0
  /\ shots = 0
  /\ keepSettled = TRUE
  /\ validAT = {}
  /\ validRT = {}
  /\ nextTok = 1
  /\ oneTime \in BOOLEAN
  /\ OAuthIdle
  /\ SoleProcess
  /\ BoundsIdle

LoginNext ==
  \/ AuthLogin
  \/ AuthSuccessDelay
  \/ ExpireAT
  \/ ExpireRT
  \/ Quit
  \/ \E r \in DOMAIN reqs : ServerHandle(r)
  \/ \E r \in DOMAIN reqs : Receive(r, MaxReq)

LoginSpec == LoginInit /\ [][LoginNext]_vars

\* The work areas the bounds are validated against: the full-HD display, a
\* display with panels whose work area is exactly the minimum chat size and
\* starts off the origin, and a work area smaller than the minimum chat size.
WorkAreas ==
  {PrimaryWorkArea,
   [x |-> 64, y |-> 24, width |-> CHAT_MIN_WIDTH, height |-> CHAT_MIN_HEIGHT],
   [x |-> 0, y |-> 0, width |-> CHAT_MIN_WIDTH - 60, height |-> CHAT_MIN_HEIGHT - 12]}

Near(v) == (v - Slack)..(v + Slack)

\* The saved records: dimensions around each limit of the clamp, zero,
\* negative and oversized ones; positions around each edge the visibility
\* tests compare with, and far off on either side.
SavedWidths ==
  {-FarOff, 0, CHAT_DEFAULT_WIDTH, FarOff}
    \cup Near(CHAT_MIN_WIDTH) \cup Near(CHAT_MAX_WIDTH)

SavedHeights ==
  {-FarOff, 0, minVisible, FarOff}
    \cup Near(CHAT_MIN_HEIGHT) \cup Near(CHAT_MAX_HEIGHT)

SavedXs ==
  {-FarOff, FarOff}
    \cup UNION {Near(a.x + minVisible - w) :
                  a \in WorkAreas,
                  w \in {CHAT_MIN_WIDTH, CHAT_DEFAULT_WIDTH, CHAT_MAX_WIDTH}}
    \cup UNION {Near(a.x + a.width - minVisible) : a \in WorkAreas}

SavedYs ==
  {-FarOff, FarOff}
    \cup UNION {Near(a.y) : a \in WorkAreas}
    \cup UNION {Near(a.y + a.height - minVisible) : a \in WorkAreas}

SavedRecords ==
  {Bounds(x, y, width, height) :
     x \in SavedXs, y \in SavedYs, width \in SavedWidths, height \in SavedHeights}

\* The application signed in at the home view, or signed out at the login
\* view, with any of the saved records or none in the bounds store, on any
\* of the work areas.
BoundsInit ==
  /\ isAuthenticated \in BOOLEAN
  /\ store = IF isAuthenticated THEN [access_token |-> 1, refresh_token |-> 1]
             ELSE [access_token |-> NoToken, refresh_token |-> NoToken]
  /\ reqs = <<>>
  /\ isQuitting = FALSE
  /\ running = TRUE
  /\ mainVisible = TRUE
  /\ chatCreated = FALSE
  /\ chatVisible = FALSE
  /\ view = IF isAuthenticated THEN "home" ELSE "login"
  /\ startup = "done"
  /\ sleepers = 0
  /\ shots = 0
  /\ keepSettled = FALSE
  /\ validAT = {1}
  /\ validRT = {1}
  /\ nextTok = 2
  /\ oneTime = TRUE
  /\ OAuthIdle
  /\ SoleProcess
  /\ chatBounds = NoBounds
  /\ savedBounds \in SavedRecords \cup {NoBounds}
  /\ workArea \in WorkAreas

BoundsNext ==
  \/ Toggle
  \/ ChatClose
  \/ ChatMoved
  \/ SecondInstance

BoundsSpec == BoundsInit /\ [][BoundsNext]_vars


\* The signed-in application and the processes launched while it runs.
InstanceNext ==
  \/ SecondLaunch
  \/ SecondReady
  \/ SecondExit
  \/ Toggle
  \/ ChatClose
  \/ MainHide
  \/ AuthLogin
  \/ AuthSuccessDelay
  \/ AuthLogout
  \/ TrayLogout
  \/ StartOAuth
  \/ \E a \in 1..MaxAttempts : OAuthTimeout(a)
  \/ Quit
  \/ \E r \in DOMAIN reqs : ServerHandle(r)
  \/ \E r \in DOMAIN reqs : Receive(r, MaxAppReq)

InstanceSpec == SessionInit /\ [][InstanceNext]_vars

\* The application at the login view and the loopback listeners of its
\* OAuth attempts, with requests on every path.
ListenerNext ==
  \/ StartOAuth
  \/ \E a \in 1..MaxAttempts : OAuthConnect(a)
  \/ \E a \in 1..MaxAttempts : OAuthOtherPath(a)
  \/ \E a \in 1..MaxAttempts : OAuthCallback(a)
  \/ \E a \in 1..MaxAttempts : OAuthTimeout(a)
  \/ AuthSuccessDelay
  \/ Quit
  \/ \E r \in DOMAIN reqs : ServerHandle(r)
  \/ \E r \in DOMAIN reqs : Receive(r, MaxAppReq)

ListenerSpec == OAuthInit /\ [][ListenerNext]_vars

\* The signed-in application of SessionInit with every settled request kept
\* on record, so that how a logout or a deletion ended can be told afterwards.
AccountInit ==
  /\ store = [access_token |-> 1, refresh_token |-> 1]
  /\ reqs = <<>>
  /\ isAuthenticated = TRUE
  /\ isQuitting = FALSE
  /\ running = TRUE
  /\ mainVisible = TRUE
  /\ chatCreated = FALSE
  /\ chatVisible = FALSE
  /\ view = "home"
  /\ startup = "done"
  /\ sleepers = 0
  /\ shots = 0
  /\ keepSettled = TRUE
  /\ validAT = {1}
  /\ validRT = {1}
  /\ nextTok = 2
  /\ OAuthIdle
  /\ SoleProcess
  /\ BoundsIdle
  /\ oneTime \in BOOLEAN

AccountSpec == AccountInit /\ [][SessionNext]_vars

\* The signed-in application of AccountInit with the sign-out and sign-in
\* events that may overlap; a login and the requests that follow it may be
\* sent after a logout, up to MaxReq requests in all.
RaceNext ==
  \/ TrayLogout
  \/ SettingsLogout
  \/ AuthLogout
  \/ AuthLogin
  \/ AuthSuccessDelay
  \/ Quit
  \/ \E r \in DOMAIN reqs : ServerHandle(r)
  \/ \E r \in DOMAIN reqs : Receive(r, MaxReq)

RaceSpec == AccountInit /\ [][RaceNext]_vars

\* The signed-in application with the chat window, the screen capture and
\* the sign-out events that hide the chat.
CaptureNext ==
  \/ Toggle
  \/ ChatClose
  \/ Screenshot
  \/ ScreenshotDone
  \/ TrayLogout
  \/ SettingsLogout
  \/ SettingsDeleteAccount
  \/ Quit
  \/ \E r \in DOMAIN reqs : ServerHandle(r)
  \/ \E r \in DOMAIN reqs : Receive(r, MaxAppReq)

CaptureSpec == SessionInit /\ [][CaptureNext]_vars

\* The gateway alone, under a running application that is signed in and
\* shows the home view: a stored session, current or stale, and callers of
\* processConversation / confirmActions.
GatewayInit ==
  /\ store = [access_token |-> 1, refresh_token |-> 1]
  /\ reqs = <<>>
  /\ isAuthenticated = TRUE
  /\ isQuitting = FALSE
  /\ running = TRUE
  /\ mainVisible = TRUE
  /\ chatCreated = FALSE
  /\ chatVisible = FALSE
  /\ view = "home"
  /\ startup = "done"
  /\ sleepers = 0
  /\ shots = 0
  /\ keepSettled = TRUE
  /\ validAT \in SUBSET {1}
  /\ validRT \in SUBSET {1}
  /\ nextTok = 2
  /\ OAuthIdle
  /\ SoleProcess
  /\ BoundsIdle
  /\ oneTime \in BOOLEAN

GatewayNext ==
  \/ Call(MaxReq)
  \/ \E r \in DOMAIN reqs : ServerHandle(r)
  \/ \E r \in DOMAIN reqs : Receive(r, MaxReq)
  \/ ExpireAT
  \/ ExpireRT

GatewaySpec == GatewayInit /\ [][GatewayNext]_vars

\* ------------------------------------------------------------ gateway claims

EmptyStore == [access_token |-> NoToken, refresh_token |-> NoToken]

Refreshes == {c \in DOMAIN reqs : reqs[c].kind = "refresh"}

RefreshesOf(r) == {c \in Refreshes : reqs[c].parent = r}

AllDone == \A r \in DOMAIN reqs : reqs[r].st = "done"

\* C1 (stated as claimed): when two or more requests have been answered 401
\* and await a refresh, and no refresh has completed yet, exactly one
\* POST /auth/refresh has been issued in total.
C1_SingleFlightRefresh ==
  LET waiting == {r \in DOMAIN reqs : reqs[r].kind = "api" /\ reqs[r].st = "waitRefresh"}
  IN (Cardinality(waiting) >= 2 /\ \A c \in Refreshes : reqs[c].st # "done")
       => Cardinality(Refreshes) = 1

\* C2: every request config is transmitted at most twice; at most one
\* refresh is ever started for it; and a request that has been replayed
\* never waits for a refresh again (a 401 on the replay settles it).
C2_AtMostOneRetry ==
  \A r \in DOMAIN reqs :
    /\ reqs[r].sends <= 2
    /\ Cardinality(RefreshesOf(r)) <= 1
    /\ (reqs[r].st = "waitRefresh" => reqs[r].sends = 1)

\* C2 witness: a replayed request was answered 401 again and is settled,
\* with its single refresh behind it.
C2_Witness ==
  \E r \in DOMAIN reqs :
    /\ reqs[r].kind = "api" /\ reqs[r].sends = 2 /\ reqs[r].resp = "401"
    /\ reqs[r].st = "done" /\ Cardinality(RefreshesOf(r)) = 1

C4_FailedRefreshNotRetried ==
  [][\A c \in DOMAIN reqs :
       (/\ reqs[c].kind = "refresh" /\ reqs[c].st = "replied"
        /\ reqs[c].resp = "401" /\ reqs'[c].st # "replied")
         => /\ Len(reqs') = Len(reqs)
            /\ reqs'[c].st = "done"
            /\ store' = EmptyStore]_vars

\* C5 (stated as claimed): with one-time refresh tokens and no network
\* failure, once every request is settled and some refresh has succeeded
\* (and the service still honours the refresh token it issued last), the
\* store holds the session of that refresh token.
C5_RefreshRaceKeepsSession ==
  (/\ oneTime /\ AllDone /\ validRT # {}
   /\ \A r \in DOMAIN reqs : reqs[r].resp # "err"
   /\ \E c \in Refreshes : reqs[c].result = "ok")
    => /\ getRefreshToken(store) \in validRT
       /\ getAccessToken(store) = getRefreshToken(store)

C7_SessionExpiredError ==
  \A r \in DOMAIN reqs :
    (/\ reqs[r].kind = "api" /\ reqs[r].st = "done"
     /\ \/ reqs[r].refreshed = "fail"
        \/ reqs[r].refreshed = "ok" /\ reqs[r].resp = "401")
      => reqs[r].result = "session_expired"

\* ------------------------------------------------------------ claims: windows

\* The store holds a session: both tokens.
SessionPresent == getAccessToken(store) # NoToken /\ getRefreshToken(store) # NoToken

\* C8 (stated as claimed): in every reachable state the chat window is
\* visible only if the store holds a session.
C8_ChatVisibleOnlyWithSession == chatVisible => SessionPresent

\* C9 (stated as claimed, for the toggle that finds the chat hidden): a step
\* of the activation toggle taken while the store holds no access token
\* navigates to the login view and leaves the chat window hidden.
C9_AuthGatedChat ==
  [][(Toggle /\ ~chatVisible /\ ~AuthStore_isAuthenticated(store))
       => (view' = "login" /\ ~chatVisible')]_vars

\* A settings:logout handler resumes after its await and runs to its end.
SettingsLogoutEnds ==
  \E r \in DOMAIN reqs :
    /\ reqs[r].kind = "logoutS"
    /\ running'
    /\ reqs'[r] = Settled

\* C10 (stated as claimed): the step that ends a logout of a signed-in user,
\* by auth:logout, by the tray item or by settings:logout, leaves the main
\* window at the login view and the chat window hidden.
C10_LogoutEndsAtLogin ==
  [][((isAuthenticated /\ (AuthLogout \/ TrayLogout)) \/ SettingsLogoutEnds)
       => (view' = "login" /\ ~chatVisible')]_vars

\* ------------------------------------------------------------ claims: account

\* A gateway call (agent process / confirm, profile fetch) that waits for
\* the refresh its 401 triggered is settled by the failure of that refresh,
\* which leaves the store empty.
RefreshExhausted ==
  \E r \in DOMAIN reqs :
    /\ reqs[r].kind \in {"api", "me", "meStartup"}
    /\ reqs[r].st = "waitRefresh"
    /\ running'
    /\ reqs'[r].st = "done"
    /\ store # EmptyStore
    /\ store' = EmptyStore

\* C11 (stated as claimed): the step in which the refresh triggered by a 401
\* on a gateway call fails and the store is cleared leaves the authenticated
\* flag false, the chat window hidden and the main window at the login view.
C11_RefreshExhaustionToLogin ==
  [][RefreshExhausted
       => (~isAuthenticated' /\ ~chatVisible' /\ view' = "login")]_vars

\* Request r is the POST of an ApiClient.logout() that completes in this step.
LogoutCompletes(r) ==
  /\ reqs[r].kind \in {"logoutS", "logoutT"}
  /\ reqs[r].st # "done"
  /\ running'
  /\ reqs'[r].st = "done"

\* C12: the step in which ApiClient.logout() completes leaves the store
\* empty and AuthStore.isAuthenticated() false, whatever the POST
\* /auth/logout came to (200, 401 or no response).
C12_LogoutClearsStore ==
  [][\A r \in DOMAIN reqs :
       LogoutCompletes(r)
         => (store' = EmptyStore /\ ~AuthStore_isAuthenticated(store'))]_vars

\* A logout whose POST was rejected or got no response has completed, and
\* the store is empty.
C12_Witness ==
  \E r \in DOMAIN reqs :
    /\ reqs[r].kind \in {"logoutS", "logoutT"}
    /\ reqs[r].st = "done"
    /\ reqs[r].result \in {"raw401", "rawErr"}
    /\ store = EmptyStore

\* Request r is the DELETE of a settings:delete-account that completes in
\* this step.
DeleteCompletes(r) ==
  /\ reqs[r].kind = "delete"
  /\ reqs[r].st # "done"
  /\ running'
  /\ reqs'[r].st = "done"

\* C13: the step in which settings:delete-account resumes after
\* ApiClient.deleteUser() leaves the store empty, whether DELETE /auth/me
\* succeeded or failed.
C13_DeleteClearsStore ==
  [][\A r \in DOMAIN reqs : DeleteCompletes(r) => store' = EmptyStore]_vars

\* A deletion whose DELETE failed has completed, and the store is empty.
C13_Witness ==
  \E r \in DOMAIN reqs :
    /\ reqs[r].kind = "delete"
    /\ reqs[r].st = "done"
    /\ reqs[r].result \in {"raw401", "rawErr"}
    /\ store = EmptyStore
    /\ ~isAuthenticated

\* C14: in every reachable state the store holds both tokens or neither.
C14_WholeSession ==
  (getAccessToken(store) = NoToken) <=> (getRefreshToken(store) = NoToken)

\* A callback has written its pair of tokens and the store holds a session.
C14_Witness ==
  /\ SessionPresent
  /\ \E a \in 1..MaxAttempts : signalled[a] # <<>> /\ signalled[a][1] = "success"

\* ------------------------------------------------------------ claims: OAuth

\* What a callback that is ignored leaves as it was.
OAuthIgnored ==
  /\ store' = store
  /\ reqs' = reqs
  /\ isAuthenticated' = isAuthenticated
  /\ view' = view
  /\ mainVisible' = mainVisible
  /\ signalled' = signalled
  /\ oauthServer' = oauthServer
  /\ oauthTimeout' = oauthTimeout
  /\ listening' = listening
  /\ timers' = timers

\* C15 (stated as claimed): a /callback request handled by the listener of
\* an attempt that was outstanding when a later attempt started writes
\* nothing to the store, calls no onAuthSuccess, signals no oauth:error and
\* leaves the later attempt as it is.
C15_OAuthSupersession ==
  [][\A a \in 1..MaxAttempts :
       (OAuthCallback(a) /\ a < attempts /\ signalled[a] = <<>>) => OAuthIgnored]_vars

\* C16 (stated as claimed): a /callback request handled by the listener of
\* an attempt that has already handled one changes neither the store nor
\* the state of the windows and signals nothing.
C16_OAuthIdempotentSettlement ==
  [][\A a \in 1..MaxAttempts :
       (OAuthCallback(a) /\ signalled[a] # <<>>
          /\ signalled[a][1] \in {"success", "error"}) => OAuthIgnored]_vars

\* C17 (stated as claimed, for the timeout against the callbacks): an
\* attempt that has signalled a timeout has signalled nothing else.
C17_OAuthOneOutcome ==
  \A a \in 1..MaxAttempts :
    (\E i \in DOMAIN signalled[a] : signalled[a][i] = "timeout")
      => Len(signalled[a]) = 1

\* C18: the timer of an attempt that has handled no callback fires: the
\* attempt signals the timeout, its listener and its timer are gone, both
\* references are null and cleanupOAuth() would change nothing; no attempt
\* ever signals a second timeout.
C18_TimeoutExclusivity ==
  /\ [][\A a \in 1..MaxAttempts :
          (OAuthTimeout(a) /\ signalled[a] = <<>>)
            => /\ signalled'[a] = <<"timeout">>
               /\ a \notin listening'
               /\ a \notin timers'
               /\ oauthServer' = NoAttempt
               /\ oauthTimeout' = NoAttempt
               /\ cleanupOAuth(World') = World']_vars
  /\ [](\A a \in 1..MaxAttempts :
          Cardinality({i \in DOMAIN signalled[a] : signalled[a][i] = "timeout"}) <= 1)

\* An attempt has timed out without a callback, and nothing is left of it.
C18_Witness ==
  \E a \in 1..MaxAttempts :
    /\ signalled[a] = <<"timeout">>
    /\ oauthServer = NoAttempt
    /\ oauthTimeout = NoAttempt
    /\ listening = {}
    /\ timers = {}

\* C19: at most one loopback listener is open and at most one timer is armed.
C19_OneOutstandingAttempt ==
  Cardinality(listening) <= 1 /\ Cardinality(timers) <= 1

\* A second attempt was started while the first, which never settled, was
\* outstanding; the listener and the timer are those of the second.
C19_Witness ==
  /\ attempts = 2
  /\ signalled[1] = <<>>
  /\ listening = {2}
  /\ timers = {2}

\* C20: a /callback request with both tokens and no error parameter sends
\* the GET /auth/me of onAuthSuccess() and leaves
\* exactly that pair in the store, no listener and no timer, the
\* authenticated flag set and the main window visible at the splash view;
\* the end of the delay of onAuthSuccess() navigates to the home view.
C20_OAuthSuccess ==
  /\ [](\A a \in conns : \A q \in CallbackQueries :
          (~q.error /\ q.at # NoToken /\ q.rt # NoToken)
            => Len(oauthCallback(World, a, q).reqs) = Len(reqs) + 1)
  /\ [][\A a \in 1..MaxAttempts :
          (Len(signalled'[a]) = Len(signalled[a]) + 1
             /\ Len(reqs') = Len(reqs) + 1) => \A q \in CallbackQueries :
          (~q.error /\ q.at # NoToken /\ q.rt # NoToken /\ OAuthDeliver(a, q))
            => /\ store' = [access_token |-> q.at, refresh_token |-> q.rt]
               /\ listening' = {}
               /\ timers' = {}
               /\ oauthServer' = NoAttempt
               /\ oauthTimeout' = NoAttempt
               /\ isAuthenticated'
               /\ mainVisible'
               /\ view' = "splash"
               /\ signalled'[a] = Append(signalled[a], "success")]_vars
  /\ [][(sleepers' = sleepers - 1 /\ AuthSuccessDelay) => view' = "home"]_vars

\* A callback has signed the user in with a pair of two different tokens,
\* and the home view is shown.
C20_Witness ==
  /\ \E a \in 1..MaxAttempts : signalled[a] = <<"success">>
  /\ isAuthenticated
  /\ view = "home"
  /\ SessionPresent
  /\ getAccessToken(store) # getRefreshToken(store)
  /\ listening = {}
  /\ timers = {}

\* C21: a /callback request with an error parameter (with or without
\* tokens), or without one of the two tokens, leaves the store, the requests
\* and the authenticated flag as they were, leaves no listener and no timer
\* and signals one oauth:error.
C21_OAuthFailureKeepsStore ==
  [][\A a \in 1..MaxAttempts :
       (/\ signalled'[a] # signalled[a]
        /\ \E q \in CallbackQueries :
             /\ q.error \/ q.at = NoToken \/ q.rt = NoToken
             /\ OAuthDeliver(a, q))
         => /\ store' = store
            /\ reqs' = reqs
            /\ isAuthenticated' = isAuthenticated
            /\ view' = view
            /\ listening' = {}
            /\ timers' = {}
            /\ oauthServer' = NoAttempt
            /\ oauthTimeout' = NoAttempt
            /\ signalled'[a] = Append(signalled[a], "error")]_vars

\* The listener of the latest attempt has handled one failure callback, on
\* a connection that is still open; nothing is left of the attempt.
C21_Witness ==
  \E a \in 1..MaxAttempts :
    /\ a = attempts
    /\ a \in conns
    /\ signalled[a] = <<"error">>
    /\ store = EmptyStore
    /\ oauthServer = NoAttempt
    /\ listening = {}
    /\ timers = {}

\* The latest attempt has ended in a failure: an error signalled by a
\* callback or by the bind, or a timeout.
LastAttemptFailed ==
  /\ attempts >= 1
  /\ signalled[attempts] # <<>>
  /\ signalled[attempts][Len(signalled[attempts])] \in {"error", "timeout"}

\* C22: a startBrowserOAuth after a failed attempt starts a new attempt
\* that listens with its timer armed and has signalled nothing (or reports
\* that it could not bind), and a callback with both tokens handled by an
\* attempt started after a failure signs the user in.
C22_OAuthRetry ==
  /\ [][(attempts' = attempts + 1 /\ LastAttemptFailed /\ StartOAuth)
          => \/ /\ oauthServer' = attempts'
                /\ oauthTimeout' = attempts'
                /\ listening' = {attempts'}
                /\ timers' = {attempts'}
                /\ signalled'[attempts'] = <<>>
             \/ /\ oauthServer' = NoAttempt
                /\ listening' = {}
                /\ signalled'[attempts'] = <<"error">>]_vars
  /\ [][(attempts = 2 /\ signalled[1] # <<>> /\ signalled[2] = <<>>
             /\ signalled'[2] # <<>>)
          => \A q \in CallbackQueries :
               (~q.error /\ q.at # NoToken /\ q.rt # NoToken
                  /\ OAuthDeliver(2, q))
                 => /\ signalled'[2] = <<"success">>
                    /\ store' = [access_token |-> q.at, refresh_token |-> q.rt]
                    /\ isAuthenticated']_vars

\* The first attempt timed out and the second one, started afterwards,
\* has signed the user in.
C22_Witness ==
  /\ attempts = 2
  /\ signalled[1] = <<"timeout">>
  /\ signalled[2] = <<"success">>
  /\ isAuthenticated
  /\ SessionPresent

\* C23: cleanupOAuth() run twice leaves what it leaves when run once, and
\* run when both references are null it changes nothing.
C23_TeardownIdempotent ==
  /\ cleanupOAuth(cleanupOAuth(World)) = cleanupOAuth(World)
  /\ (oauthServer = NoAttempt /\ oauthTimeout = NoAttempt)
       => cleanupOAuth(World) = World

\* An attempt whose listener was closed and whose timer was cleared by its
\* first callback has handled a second one, which called cleanupOAuth()
\* again, with its connection still open.
C23_Witness ==
  \E a \in 1..MaxAttempts :
    /\ Len(signalled[a]) = 2
    /\ a = attempts
    /\ a \in conns
    /\ oauthServer = NoAttempt
    /\ oauthTimeout = NoAttempt

\* The refresh requests startup() itself has sent.
StartupRefreshes ==
  {r \in 1..Len(reqs) : reqs[r].kind = "refresh" /\ reqs[r].parent = 0}

\* C24: when healthCheck() yields false, startup() sends nothing and
\* navigates nowhere, waits, and its next step ends the process; while it
\* waits there is no refresh request of startup().
C24_UnreachableServiceQuits ==
  /\ [][(startup = "health"
           /\ Apply(startup_afterHealth(World, FALSE), MaxAppReq))
          => /\ startup' = "quitWait"
             /\ reqs' = reqs
             /\ view' = view
             /\ store' = store
             /\ isAuthenticated' = isAuthenticated]_vars
  /\ [][startup = "quitWait" => (startup' = "quitWait" \/ ~running')]_vars
  /\ [][(startup = "quitWait" /\ startup' # "quitWait" /\ StartupDelay)
          => (~running' /\ view' = "none")]_vars
  /\ [](startup = "quitWait" => StartupRefreshes = {})

\* The health check has failed with a Session in the store: startup()
\* waits at the splash view and has sent nothing.
C24_Witness ==
  /\ startup = "quitWait"
  /\ running
  /\ SessionPresent
  /\ view = "splash"
  /\ reqs = <<>>
  /\ ~isAuthenticated

\* C25: startup() goes to the home view only after a refresh that
\* succeeded, and a refresh request of startup() that the service answers
\* with anything but success puts startup() on its way to the login view.
C25_StartupRouting ==
  /\ [][(startup = "homeWait" /\ startup' = "done" /\ running') => view' = "home"]_vars
  /\ [][(startup = "loginWait" /\ startup' = "done" /\ running') => view' = "login"]_vars
  /\ [][(startup = "refresh" /\ startup' = "me") => SessionPresent']_vars
  /\ [][\A r \in 1..Len(reqs) :
          (startup = "refresh" /\ r \in StartupRefreshes
             /\ reqs[r].st = "replied" /\ reqs[r].resp # "ok"
             /\ Receive(r, MaxAppReq))
            => startup' = "loginWait"]_vars

\* The refresh requests the interceptor has sent for a GET /auth/me of
\* onAuthSuccess().
ProfileRefreshes ==
  {c \in 1..Len(reqs) : /\ reqs[c].kind = "refresh"
                        /\ reqs[c].parent # 0
                        /\ reqs[reqs[c].parent].kind = "me"}

\* C26: a login that succeeds shows the main window at the splash view
\* with the flag set; the end of the delay of onAuthSuccess() navigates to
\* the home view; and the delay starts when the profile fetch has its
\* answer, whether the profile, a network failure, or a refresh on its
\* behalf that the service did not grant.
C26_LoginReachesHome ==
  /\ [][\A r \in 1..Len(reqs) :
          (reqs[r].kind = "login" /\ reqs[r].st = "replied"
             /\ reqs[r].resp = "ok" /\ Receive(r, MaxReq))
            => (view' = "splash" /\ isAuthenticated' /\ mainVisible')]_vars
  /\ [][(sleepers' = sleepers - 1 /\ AuthSuccessDelay) => view' = "home"]_vars
  /\ [][\A r \in 1..Len(reqs) :
          (reqs[r].kind = "me" /\ reqs[r].st = "replied"
             /\ reqs[r].resp \in {"ok", "err"} /\ Receive(r, MaxReq))
            => sleepers' = sleepers + 1]_vars
  /\ [][\A c \in 1..Len(reqs) :
          (c \in ProfileRefreshes /\ reqs[c].st = "replied"
             /\ reqs[c].resp # "ok" /\ Receive(c, MaxReq))
            => sleepers' = sleepers + 1]_vars

OffScreen(saved, area) ==
  /\ saved.width > 0
  /\ saved.height > 0
  /\ \/ saved.x + saved.width <= area.x
     \/ saved.x >= area.x + area.width
     \/ saved.y + saved.height <= area.y
     \/ saved.y >= area.y + area.height

\* C28: when the saved record lies entirely off the work area, the bounds
\* the chat window is shown with are the computed default of that work area.
C28_OffScreenIsDiscarded ==
  [][(~chatVisible /\ chatVisible' /\ savedBounds.present
        /\ OffScreen(savedBounds, workArea))
      => chatBounds' = defaultChatBounds(workArea)]_vars

\* How much of the extent of rectangle b lies inside the work area, along
\* each axis.
InsideX(b, area) == Min(b.x + b.width, area.x + area.width) - Max(b.x, area.x)

InsideY(b, area) == Min(b.y + b.height, area.y + area.height) - Max(b.y, area.y)

\* C29: on a work area no smaller than the minimum chat size, the bounds
\* the chat window is shown with after a saved record was validated lie
\* inside the work area by minVisible along each axis, or by their whole
\* extent along an axis where they are shorter than minVisible.
C29_VisibleMargin ==
  [][(~chatVisible /\ chatVisible' /\ savedBounds.present
        /\ workArea.width >= CHAT_MIN_WIDTH /\ workArea.height >= CHAT_MIN_HEIGHT)
      => /\ InsideX(chatBounds', workArea) >= Min(minVisible, chatBounds'.width)
         /\ InsideY(chatBounds', workArea) >= Min(minVisible, chatBounds'.height)]_vars

\* A record saved far off to the left and above the full-HD work area has
\* been validated: the chat is shown at the corner of the work area.
C29_Witness ==
  /\ chatVisible
  /\ workArea = PrimaryWorkArea
  /\ savedBounds = Bounds(-FarOff, -FarOff, CHAT_DEFAULT_WIDTH, CHAT_MIN_HEIGHT)
  /\ chatBounds = Bounds(0, 0, CHAT_DEFAULT_WIDTH, CHAT_MIN_HEIGHT)

\* C30: the bounds the chat window is shown with have a width within
\* CHAT_MIN_WIDTH..CHAT_MAX_WIDTH and a height within
\* CHAT_MIN_HEIGHT..CHAT_MAX_HEIGHT, whatever the saved record and the work
\* area; without a saved record they are CHAT_DEFAULT_WIDTH by
\* CHAT_DEFAULT_HEIGHT.
C30_ClampedDimensions ==
  [][(~chatVisible /\ chatVisible')
      => /\ chatBounds'.width \in CHAT_MIN_WIDTH..CHAT_MAX_WIDTH
         /\ chatBounds'.height \in CHAT_MIN_HEIGHT..CHAT_MAX_HEIGHT
         /\ ~savedBounds.present
              => /\ chatBounds'.width = CHAT_DEFAULT_WIDTH
                 /\ chatBounds'.height = CHAT_DEFAULT_HEIGHT]_vars

\* A record with a negative width and an oversized height has been
\* validated on the work area smaller than the minimum chat size: the chat
\* is shown at the minimum size.
C30_Witness ==
  /\ chatVisible
  /\ workArea.width < CHAT_MIN_WIDTH
  /\ savedBounds.present
  /\ savedBounds.width = -FarOff
  /\ savedBounds.height = FarOff
  /\ chatBounds.width = CHAT_MIN_WIDTH
  /\ chatBounds.height = CHAT_MIN_HEIGHT

\* C31: the launch of a second process brings the main window of this one
\* forward, and the second process never runs startup(): it only exits.
C31_SecondProcessOnlyExits ==
  /\ [][(secondProcess' = "quit" /\ secondProcess # "quit" /\ running')
          => (mainVisible' /\ chatVisible' = chatVisible /\ view' = view
                /\ reqs' = reqs /\ listening' = listening)]_vars
  /\ [](secondProcess # "startup")

\* C32: a step that takes the store from holding a Session to empty is
\* auth:logout, or the completion of ApiClient.logout() or of an account
\* deletion, or the failure of a POST /auth/refresh.
C32_StoreClearedOnlyBy ==
  [][(SessionPresent /\ store' = EmptyStore)
      => \/ AuthLogout
         \/ \E r \in DOMAIN reqs :
              /\ reqs[r].st = "replied"
              /\ \/ reqs[r].kind \in {"logoutS", "logoutT", "delete"}
                 \/ reqs[r].kind = "refresh" /\ reqs[r].resp # "ok"
              /\ Receive(r, MaxAppReq)]_vars

\* An OAuth attempt has timed out, and a later one has ended with an error,
\* while the store held a Session: it still does.
C32_Witness ==
  /\ SessionPresent
  /\ isAuthenticated
  /\ attempts = 2
  /\ signalled[1] = <<"timeout">>
  /\ signalled[2] = <<"error">>

\* C33: while the process runs the quit action is enabled and ends the
\* process; once the process has exited no event is handled any more, and
\* in no other state is that so.
C33_QuitAlwaysPossible ==
  /\ [](running => ENABLED Quit)
  /\ [][(isQuitting' /\ ~isQuitting) => ~running']_vars
  /\ [](running <=> ENABLED InstanceNext)

\* The quit action is enabled at the splash view of onAuthSuccess(), in
\* its delay, with an OAuth attempt outstanding and the chat window hidden.
C33_Witness ==
  /\ running
  /\ view = "splash"
  /\ sleepers > 0
  /\ listening # {}
  /\ timers # {}
  /\ chatCreated
  /\ ~chatVisible
  /\ ENABLED Quit

\* C34: a request on another path than /callback is answered 404, and the
\* step that answers 404 leaves the listeners, the timers, the two
\* references, the signals, the store, the requests, the flag, the view and
\* the windows as they were.
C34_OtherPathChangesNothing ==
  /\ [](\A a \in conns : \A pathname \in OtherPaths : \A q \in CallbackQueries :
          oauthServer_onRequest(World, a, pathname, q)
            = [World EXCEPT !.notFound = @ + 1])
  /\ [][(notFound' = notFound + 1)
          => /\ listening' = listening
             /\ timers' = timers
             /\ oauthServer' = oauthServer
             /\ oauthTimeout' = oauthTimeout
             /\ signalled' = signalled
             /\ store' = store
             /\ reqs' = reqs
             /\ isAuthenticated' = isAuthenticated
             /\ view' = view
             /\ mainVisible' = mainVisible
             /\ chatVisible' = chatVisible]_vars

\* The listener of the outstanding attempt has answered 404: it still
\* listens with its timer armed and has signalled nothing.
C34_Witness ==
  /\ notFound = 1
  /\ attempts >= 1
  /\ oauthServer = attempts
  /\ oauthTimeout = attempts
  /\ listening = {attempts}
  /\ timers = {attempts}
  /\ signalled[attempts] = <<>>
  /\ attempts \in conns

\* The store holds the Session of a login that was requested after request
\* r and has succeeded.
LoginAfter(r) ==
  \E l \in (r + 1)..Len(reqs) :
    /\ reqs[l].kind = "login"
    /\ reqs[l].st = "done"
    /\ reqs[l].result = "ok"
    /\ store = [access_token |-> reqs[l].data, refresh_token |-> reqs[l].data]

\* C35: the step in which the logout call of a tray Logout finishes, when
\* the store holds the Session of a login requested after that click,
\* leaves that Session in the store and the flag in agreement with it.
C35_LogoutSparesLaterLogin ==
  [][\A r \in DOMAIN reqs :
       (reqs[r].kind = "logoutT" /\ reqs[r].st # "done" /\ running'
          /\ reqs'[r].st = "done" /\ LoginAfter(r))
         => (store' = store /\ (isAuthenticated' <=> SessionPresent'))]_vars

\* C36: when the delay of an onAuthSuccess() ends after a logout or an
\* account deletion has left the flag false and the store empty, the step
\* does not navigate to the home view.
C36_NoHomeAfterLogout ==
  [][(sleepers' = sleepers - 1 /\ running' /\ ~isAuthenticated
        /\ store = EmptyStore)
      => view' # "home"]_vars

\* C37: when a chat:screenshot handler that hid the chat finishes after a
\* logout or an account deletion has left the flag false, the step leaves
\* the chat hidden.
C37_CaptureKeepsChatHidden ==
  [][(shots' = shots - 1 /\ running' /\ ~isAuthenticated) => ~chatVisible']_vars

\* C38: a /callback request handled by the listener of an attempt other
\* than the outstanding one (superseded, or with an outcome already
\* signalled) leaves the outstanding attempt as it is: still referenced,
\* still listening, its timer still armed.
C38_OlderListenerSparesNewer ==
  [][\A a \in 1..MaxAttempts :
       (/\ Len(signalled'[a]) = Len(signalled[a]) + 1
        /\ attempts' = attempts
        /\ running'
        /\ a # oauthServer
        /\ oauthServer # NoAttempt
        /\ oauthServer \in listening
        /\ oauthTimeout = oauthServer
        /\ oauthServer \in timers)
       => (/\ oauthServer' = oauthServer
           /\ oauthTimeout' = oauthTimeout
           /\ oauthServer \in listening'
           /\ oauthServer \in timers')]_vars

\* Rectangle b has a width and a height within the limits of the chat
\* window and lies entirely inside the work area.
WithinLimits(b) ==
  /\ b.width \in CHAT_MIN_WIDTH..CHAT_MAX_WIDTH
  /\ b.height \in CHAT_MIN_HEIGHT..CHAT_MAX_HEIGHT

EntirelyInside(b, area) ==
  /\ area.x <= b.x
  /\ b.x + b.width <= area.x + area.width
  /\ area.y <= b.y
  /\ b.y + b.height <= area.y + area.height

\* C39: a rectangle saved by saveChatBounds() that is within the limits and
\* entirely inside the work area is the rectangle the chat window is shown
\* with when it is next restored under the same work area.
C39_SaveRestoreRoundTrip ==
  [][(~chatVisible /\ chatVisible' /\ savedBounds.present
        /\ WithinLimits(savedBounds) /\ EntirelyInside(savedBounds, workArea))
      => chatBounds' = savedBounds]_vars

====
